---- MODULE Spec2Model ----
(***************************************************************************)
(* async-autotiling (src/src/main.rs): a daemon that listens for window    *)
(* focus events of sway/i3 and sets the split direction of the focused     *)
(* window's container from the window's aspect ratio.                      *)
(*                                                                         *)
(* The daemon's state is its position in main/run_autotile (pc), its two   *)
(* IPC connections, the event subscription and run_autotile's locals.  The *)
(* window manager is the environment: it owns the node tree and the        *)
(* focused workspace, answers the IPC calls and may change between two     *)
(* awaits of the daemon.  Every .await of the source is one step.          *)
(***************************************************************************)
EXTENDS Integers, Sequences, FiniteSets, TLC

VARIABLES
    args,            \* Args: [ratio, workspace, once]
    pc,              \* position of main / run_autotile
    cmd_conn,        \* the command connection: "none", "open", "broken"
    event_conn,      \* the event connection:   "none", "open", "broken"
    events,          \* the subscription stream: "none", "live"
    tree,            \* run_autotile's tree snapshot: <<>> or <<t>>
    ws_name,         \* result of get_focused_workspace_name in this run
    new_layout,      \* run_autotile's local new_layout ("none": not computed)
    cmd,             \* run_autotile's local cmd ("none": not computed)
    outcome,         \* how the last run of run_autotile ended
    lastCmd,         \* the command the last run delivered ("none": none)
    lastLog,         \* the last line handed to the Logger
    item,            \* the last item events.next() yielded
    wmTree,          \* window manager: the current node tree
    wmWs,            \* window manager: name of the focused workspace
    eventsConsumed,  \* items taken from the event stream
    focusEvents,     \* window focus events taken from the event stream
    ruleRuns,        \* calls of run_autotile
    cmdsSent,        \* split commands delivered to the window manager
    wmApplied,       \* where the window manager executed this run's command:
                     \* <<>> or <<[win, ws]>>, its focused node and workspace
    subs_on_conn     \* subscribe calls made on the current event connection

vars == <<args, pc, cmd_conn, event_conn, events, tree, ws_name, new_layout,
          cmd, outcome, lastCmd, lastLog, item, wmTree, wmWs, eventsConsumed,
          focusEvents, ruleRuns, cmdsSent, wmApplied, subs_on_conn>>

---------------------------------------------------------------------------
(* Bounds *)

\* items the event stream delivers in one behaviour
MaxEvents == 2

---------------------------------------------------------------------------
(* Values *)

\* Option<T>: None is <<>>, Some(x) is <<x>>
None == <<>>
Some(x) == <<x>>

\* node.percent is a fraction; the model keeps it in hundredths, 1.0 is 100
PercentOne == 100

\* Rect.width / Rect.height of the focused node
Dims == {100, 200}

\* Option<f64> percent values: absent, below, at and above 1.0
Percents == {None, Some(PercentOne), Some(150)}

\* NodeLayout values a container or window reports
Layouts == {"SplitH", "SplitV", "Tabbed", "Stacked", "None"}
ParentLayouts == {"SplitH", "SplitV", "Tabbed", "Stacked"}
NodeTypes == {"Con", "FloatingCon"}

\* --ratio as a fraction <<numerator, denominator>>: 1.0, 1.618, 0.0
Ratios == {<<1, 1>>, <<1618, 1000>>, <<0, 1>>}
\* the default of --ratio (line 23)
DefaultRatio == <<1, 1>>

\* workspace names; NoWorkspace: no workspace reports focused
WsNames == {"1", "2"}
NoWorkspace == "<none>"
Unqueried == "<unqueried>"

\* --workspace: the allow-list (only membership is ever read)
AllowLists == {{}, {"1"}}

---------------------------------------------------------------------------
(* The node tree.  Node ids: 1 root, 2 workspace, 3 container in the       *)
(* workspace, 4 window in the workspace, 5 window in container 3,          *)
(* 6 floating window of the workspace.                                     *)

NodeIds == 1..6

Attrs == [layout : Layouts, node_type : NodeTypes, percent : Percents,
          width : Dims, height : Dims]

DefaultAttrs == [layout |-> "None", node_type |-> "Con", percent |-> None,
                 width |-> 100, height |-> 100]

\* swayipc Node, the fields main.rs reads
MkNode(kids, floats, focusOrder, isFocused, a) ==
    [nodes |-> kids, floating_nodes |-> floats, focus |-> focusOrder,
     focused |-> isFocused, layout |-> a.layout, node_type |-> a.node_type,
     percent |-> a.percent, width |-> a.width, height |-> a.height]

\* the tree in which node sel is focused and has attributes a, and the
\* container holding it has layout pl
MkTree(sel, a, pl) ==
    LET at(id) == IF id = sel THEN a ELSE DefaultAttrs
        lay(id, dflt) == [at(id) EXCEPT !.layout =
                             IF id = sel THEN a.layout
                             ELSE IF (sel = 3 /\ id = 2) \/ (sel = 5 /\ id = 3)
                                  THEN pl ELSE dflt]
        wsFocus == IF sel = 6 THEN <<6, 4, 3>>
                   ELSE IF sel \in {3, 5} THEN <<3, 4, 6>>
                   ELSE <<4, 3, 6>>
    IN  [id \in NodeIds |->
           CASE id = 1 -> MkNode(<<2>>, <<>>, <<2>>, FALSE,
                                 [DefaultAttrs EXCEPT !.layout = "SplitH"])
             [] id = 2 -> MkNode(<<3, 4>>, <<6>>, wsFocus, FALSE, lay(2, "SplitH"))
             [] id = 3 -> MkNode(<<5>>, <<>>, <<5>>, sel = 3, lay(3, "SplitH"))
             [] id = 4 -> MkNode(<<>>, <<>>, <<>>, FALSE, lay(4, "None"))
             [] id = 5 -> MkNode(<<>>, <<>>, <<>>, sel = 5, lay(5, "None"))
             [] id = 6 -> MkNode(<<>>, <<>>, <<>>, sel = 6,
                                 [lay(6, "None") EXCEPT !.node_type =
                                     IF sel = 6 THEN a.node_type ELSE "FloatingCon"])]

\* every tree the decision rule is tried on
Trees ==
    {MkTree(sel, a, pl) : sel \in {3, 5}, a \in Attrs, pl \in ParentLayouts}
    \cup {MkTree(sel, DefaultAttrs, "SplitH") : sel \in {0, 6}}

\* the trees the window manager moves between while the daemon runs: the
\* focus is on container 3 (wide, in the workspace), on window 5 (tall, in
\* container 3) or nowhere, and the focused node's parent is splith or splitv
WindowAttrs(sel) ==
    [DefaultAttrs EXCEPT !.width = IF sel = 3 THEN 200 ELSE 100,
                         !.height = IF sel = 3 THEN 100 ELSE 200]
WMTrees ==
    {MkTree(sel, WindowAttrs(sel), pl) : sel \in {3, 5}, pl \in {"SplitH", "SplitV"}}
    \cup {MkTree(0, DefaultAttrs, "SplitH")}

Range(s) == {s[i] : i \in 1..Len(s)}

\* the closure of line 137: some direct child (nodes) is focused
HasFocusedChild(t, id) == \E i \in 1..Len(t[id].nodes) : t[t[id].nodes[i]].focused

\* Node::find_focused_as_ref with that closure: the first node along the
\* focus chain for which it holds; 0 is None
RECURSIVE find_focused_as_ref(_, _)
find_focused_as_ref(t, id) ==
    IF HasFocusedChild(t, id) THEN id
    ELSE IF t[id].focus = <<>> THEN 0
    ELSE LET first == t[id].focus[1]
         IN  IF first \in Range(t[id].nodes) \cup Range(t[id].floating_nodes)
             THEN find_focused_as_ref(t, first)
             ELSE 0

\* parent.nodes.iter().find(|n| n.focused): the first focused child; 0 is None
FindFocusedChild(t, parent) ==
    LET idx == {i \in 1..Len(t[parent].nodes) : t[t[parent].nodes[i]].focused}
    IN  IF idx = {} THEN 0
        ELSE t[parent].nodes[CHOOSE i \in idx : \A j \in idx : i <= j]

---------------------------------------------------------------------------
(* The decision rule's pure parts *)

\* the f64 comparison height > width / ratio of line 148, ratio = r[1] / r[2]
\* with r[2] > 0; a division by 0.0 yields an infinity or NaN
ExceedsQuotient(height, width, r) ==
    IF r[1] > 0 THEN height * r[1] > width * r[2]
    ELSE IF r[1] < 0 THEN height * r[1] < width * r[2]
    ELSE width < 0

\* lines 148-152 with >= for >
desired_layout_ge(height, width, r) ==
    IF ExceedsQuotient(height, width, r) \/ height * r[1] = width * r[2]
    THEN "SplitV" ELSE "SplitH"

\* lines 148-152
desired_layout(height, width, r) ==
    IF ExceedsQuotient(height, width, r) THEN "SplitV" ELSE "SplitH"

\* line 175: node.percent.map_or(false, |p| p > 1.0)
is_fullscreen(node) ==
    IF node.percent = None THEN FALSE ELSE node.percent[1] > PercentOne

\* line 176
is_floating(node) == node.node_type = "FloatingCon"

\* lines 173-178 without the floating test
should_skip_no_floating(node) ==
    node.layout \in {"Tabbed", "Stacked"} \/ is_fullscreen(node)

\* lines 173-178
should_skip(node) ==
    node.layout \in {"Tabbed", "Stacked"} \/ is_fullscreen(node) \/ is_floating(node)

\* line 155 without the comparison
layout_differs_always(nl, parentLayout) == nl \in {"SplitH", "SplitV"}

\* line 155
layout_differs(nl, parentLayout) == nl # parentLayout

\* lines 156-160 with the two commands exchanged
split_command_swapped(nl) == IF nl = "SplitV" THEN "splith" ELSE "splitv"

\* lines 156-160
split_command(nl) == IF nl = "SplitV" THEN "splitv" ELSE "splith"

\* line 125 with the filter never applied
filter_configured_never(allow) == FALSE

\* line 125: an allow-list was given
filter_configured(allow) == allow # {}

\* line 127 and 130-132 without the membership test
workspace_allowed_any(allow, name) == name # NoWorkspace

\* line 127 and 130-132: the filter lets the run go on
workspace_allowed(allow, name) == name # NoWorkspace /\ name \in allow

\* lines 137-166 with the root taken as parent and node when no parent of a
\* focused node is found (find_focused_as_ref(..).unwrap_or(&tree))
Decide_root_fallback(t, r) ==
    LET found == find_focused_as_ref(t, 1)
        parent == IF found = 0 THEN 1 ELSE found
        child == FindFocusedChild(t, parent)
        focused == IF child = 0 THEN parent ELSE child
    IN  IF should_skip(t[focused])
        THEN [outcome |-> "skip_node", new_layout |-> "none", cmd |-> "none"]
        ELSE LET nl == desired_layout(t[focused].height, t[focused].width, r)
             IN  IF layout_differs(nl, t[parent].layout)
                 THEN [outcome |-> "send", new_layout |-> nl, cmd |-> split_command(nl)]
                 ELSE [outcome |-> "same_layout", new_layout |-> nl, cmd |-> "none"]

\* lines 137-166 up to the await of run_command: what the snapshot decides
Decide(t, r) ==
    LET parent == find_focused_as_ref(t, 1)
        focused == IF parent = 0 THEN 0 ELSE FindFocusedChild(t, parent)
    IN  IF parent = 0 \/ focused = 0
        THEN [outcome |-> "no_pair", new_layout |-> "none", cmd |-> "none"]
        ELSE IF should_skip(t[focused])
        THEN [outcome |-> "skip_node", new_layout |-> "none", cmd |-> "none"]
        ELSE LET nl == desired_layout(t[focused].height, t[focused].width, r)
             IN  IF layout_differs(nl, t[parent].layout)
                 THEN [outcome |-> "send", new_layout |-> nl, cmd |-> split_command(nl)]
                 ELSE [outcome |-> "same_layout", new_layout |-> nl, cmd |-> "none"]

RuleErrors == {"err_tree", "err_ws", "err_cmd"}

\* the Result run_autotile returns
Result(out) == IF out \in RuleErrors THEN "err" ELSE "ok"

---------------------------------------------------------------------------
(* IPC *)

\* an IPC call on a connection: it succeeds only on an open connection; a
\* failure may or may not leave the connection usable
IpcOutcomes(conn) ==
    IF conn = "open"
    THEN {[ok |-> TRUE, conn |-> "open"], [ok |-> FALSE, conn |-> "open"],
          [ok |-> FALSE, conn |-> "broken"]}
    ELSE {[ok |-> FALSE, conn |-> conn]}

---------------------------------------------------------------------------
(* main *)

ArgsSet(ratios) == [ratio : ratios, workspace : AllowLists, once : BOOLEAN]

InitWith(trees, ratios) ==
    /\ args \in ArgsSet(ratios)
    /\ pc = "start"
    /\ cmd_conn = "none"
    /\ event_conn = "none"
    /\ events = "none"
    /\ tree = None
    /\ ws_name = Unqueried
    /\ new_layout = "none"
    /\ cmd = "none"
    /\ outcome = "none"
    /\ lastCmd = "none"
    /\ lastLog = "none"
    /\ item = "none"
    /\ wmTree \in trees
    /\ wmWs \in WsNames \cup {NoWorkspace}
    /\ eventsConsumed = 0
    /\ focusEvents = 0
    /\ ruleRuns = 0
    /\ cmdsSent = 0
    /\ wmApplied = None
    /\ subs_on_conn = 0

Init == InitWith(WMTrees, {DefaultRatio})

\* the locals of run_autotile at its entry
EnterRule ==
    /\ tree' = None
    /\ ws_name' = Unqueried
    /\ new_layout' = "none"
    /\ cmd' = "none"
    /\ outcome' = "none"
    /\ lastCmd' = "none"
    /\ wmApplied' = None
    /\ ruleRuns' = ruleRuns + 1

\* lines 90-92 with the error propagated (run_autotile(..).await?)
after_rule_propagate(once, res) ==
    IF once \/ res = "err" THEN (IF res = "ok" THEN "exit_ok" ELSE "exit_err")
    ELSE "next"

\* line 77 with the error dropped
after_rule_once_ok(once, res) == IF once THEN "exit_ok" ELSE "next"

\* lines 76-79 and 90-92: where main goes when run_autotile returned
after_rule(once, res) ==
    IF once THEN (IF res = "ok" THEN "exit_ok" ELSE "exit_err") ELSE "next"

\* line 89 without the test of the change type
is_focus_event_any_window(it) == it \in {"focus", "window_other"}

\* line 89: the item is a window event whose change is Focus
is_focus_event(it) == it = "focus"

\* lines 87-115 with the end of the stream treated as an error
after_item_end_reconnects(it) ==
    CASE it \in {"stream_error", "end"} -> "reconn"
      [] is_focus_event(it) -> "rule_tree"
      [] OTHER -> "next"

\* lines 87-115 with run_autotile called for every event
after_item_always_runs(it) ==
    CASE it = "stream_error" -> "reconn"
      [] it = "end" -> "exit_ok"
      [] OTHER -> "rule_tree"

\* lines 87-115: where main goes on an item of the stream
after_item(it) ==
    CASE it = "stream_error" -> "reconn"
      [] it = "end" -> "exit_ok"
      [] is_focus_event(it) -> "rule_tree"
      [] OTHER -> "next"

\* lines 74, 83, 84 with a failure taken into the retry loop
startup_failure_retries == "sleep"

\* lines 74, 83, 84: the ? of a failed startup call returns the error from main
startup_failure == "exit_err"

\* lines 109-110 without the sleep
failed_attempt_no_sleep == "reconn"

\* lines 109-110: a failed attempt of the reconnect loop logs and sleeps
failed_attempt == "sleep"

\* line 74, then 76-81
Start ==
    /\ pc = "start"
    /\ \E ok \in BOOLEAN :
         IF ok
         THEN /\ cmd_conn' = "open"
              /\ IF args.once
                 THEN /\ pc' = "rule_tree"
                      /\ EnterRule
                      /\ UNCHANGED lastLog
                 ELSE /\ pc' = "evconn"
                      /\ lastLog' = "started"
                      /\ UNCHANGED <<tree, ws_name, new_layout, cmd, outcome,
                                     lastCmd, ruleRuns, wmApplied>>
         ELSE /\ pc' = startup_failure
              /\ UNCHANGED <<cmd_conn, lastLog, tree, ws_name, new_layout, cmd,
                             outcome, lastCmd, ruleRuns, wmApplied>>
    /\ UNCHANGED <<args, event_conn, events, item, wmTree, wmWs, eventsConsumed,
                   focusEvents, cmdsSent, subs_on_conn>>

\* line 83
OpenEventConn ==
    /\ pc = "evconn"
    /\ \E ok \in BOOLEAN :
         IF ok THEN event_conn' = "open" /\ subs_on_conn' = 0 /\ pc' = "subscribe"
         ELSE pc' = startup_failure /\ UNCHANGED <<event_conn, subs_on_conn>>
    /\ UNCHANGED <<args, cmd_conn, events, tree, ws_name, new_layout, cmd,
                   outcome, lastCmd, lastLog, item, wmTree, wmWs, eventsConsumed,
                   focusEvents, ruleRuns, cmdsSent, wmApplied>>

\* line 84
Subscribe ==
    /\ pc = "subscribe"
    /\ \E o \in IpcOutcomes(event_conn) :
         /\ event_conn' = o.conn
         /\ IF o.ok THEN events' = "live" /\ pc' = "next"
            ELSE pc' = startup_failure /\ UNCHANGED events
    /\ subs_on_conn' = subs_on_conn + 1
    /\ UNCHANGED <<args, cmd_conn, tree, ws_name, new_layout, cmd, outcome,
                   lastCmd, lastLog, item, wmTree, wmWs, eventsConsumed,
                   focusEvents, ruleRuns, cmdsSent, wmApplied>>

\* what events.next() can yield: a window focus event, another window
\* event, an event of another type, an error, or the end of the stream
StreamItems == {"focus", "window_other", "other_event", "stream_error", "end"}

\* lines 87-89, 95-99, 113-114: take one item from the stream
NextEvent ==
    /\ pc = "next"
    /\ eventsConsumed < MaxEvents
    /\ \E it \in StreamItems :
         /\ item' = it
         /\ pc' = after_item(it)
         /\ IF pc' = "rule_tree"
            THEN EnterRule
            ELSE UNCHANGED <<tree, ws_name, new_layout, cmd, outcome, lastCmd,
                             ruleRuns, wmApplied>>
         /\ focusEvents' = IF it = "focus" THEN focusEvents + 1 ELSE focusEvents
         /\ IF it = "stream_error"
            THEN events' = "failed" /\ lastLog' = "stream_error"
            ELSE UNCHANGED <<events, lastLog>>
    /\ eventsConsumed' = eventsConsumed + 1
    /\ UNCHANGED <<args, cmd_conn, event_conn, wmTree, wmWs, cmdsSent, subs_on_conn>>

\* the node the window manager applies a command without criteria to: its
\* focused node (0: none)
WMFocused(t) ==
    IF \E id \in NodeIds : t[id].focused
    THEN CHOOSE id \in NodeIds : t[id].focused
    ELSE 0

\* run_autotile returns with outcome out, having delivered command sent
\* ("none": nothing delivered); lines 77-78 and 90-92 take its Result
Return(out, sent) ==
    /\ outcome' = out
    /\ lastCmd' = sent
    /\ cmdsSent' = IF sent = "none" THEN cmdsSent ELSE cmdsSent + 1
    /\ wmApplied' = IF sent = "none" THEN wmApplied
                    ELSE Some([win |-> WMFocused(wmTree), ws |-> wmWs])
    /\ pc' = after_rule(args.once, Result(out))
    /\ lastLog' = IF pc' = "next" /\ Result(out) = "err" THEN "rule_error"
                  ELSE IF out = "sent" THEN "split_set"
                  ELSE lastLog

\* lines 137-166 on snapshot t: return at once, or go on to send the command
DecideAndGo(t) ==
    LET d == Decide(t, args.ratio)
    IN  /\ new_layout' = d.new_layout
        /\ cmd' = d.cmd
        /\ IF d.outcome = "send"
           THEN /\ pc' = "rule_cmd"
                /\ UNCHANGED <<outcome, lastCmd, cmdsSent, lastLog, wmApplied>>
           ELSE Return(d.outcome, "none")

\* line 123, then line 125 and (with an empty allow-list) lines 137-160
GetTree ==
    /\ pc = "rule_tree"
    /\ \E o \in IpcOutcomes(cmd_conn) :
         /\ cmd_conn' = o.conn
         /\ IF o.ok
            THEN /\ tree' = Some(wmTree)
                 /\ IF filter_configured(args.workspace)
                    THEN /\ pc' = "rule_ws"
                         /\ UNCHANGED <<new_layout, cmd, outcome, lastCmd,
                                        cmdsSent, lastLog, wmApplied>>
                    ELSE DecideAndGo(wmTree)
            ELSE /\ Return("err_tree", "none")
                 /\ UNCHANGED <<tree, new_layout, cmd>>
    /\ UNCHANGED <<args, event_conn, events, ws_name, item, wmTree, wmWs,
                   eventsConsumed, focusEvents, ruleRuns, subs_on_conn>>

\* lines 126-133 (get_focused_workspace_name, 181-187), then lines 137-160
GetWorkspaces ==
    /\ pc = "rule_ws"
    /\ \E o \in IpcOutcomes(cmd_conn) :
         /\ cmd_conn' = o.conn
         /\ IF o.ok
            THEN /\ ws_name' = wmWs
                 /\ IF workspace_allowed(args.workspace, wmWs)
                    THEN DecideAndGo(tree[1])
                    ELSE /\ Return("skip_ws", "none")
                         /\ UNCHANGED <<new_layout, cmd>>
            ELSE /\ Return("err_ws", "none")
                 /\ UNCHANGED <<ws_name, new_layout, cmd>>
    /\ UNCHANGED <<args, event_conn, events, tree, item, wmTree, wmWs,
                   eventsConsumed, focusEvents, ruleRuns, subs_on_conn>>

\* lines 161-165: a failed run_command may still have delivered the command
\* (the failure can be in reading the reply)
RunCommand ==
    /\ pc = "rule_cmd"
    /\ \E o \in IpcOutcomes(cmd_conn) :
         /\ cmd_conn' = o.conn
         /\ IF o.ok
            THEN Return("sent", cmd)
            ELSE \E delivered \in BOOLEAN :
                    Return("err_cmd", IF delivered THEN cmd ELSE "none")
    /\ UNCHANGED <<args, event_conn, events, tree, ws_name, new_layout, cmd, item,
                   wmTree, wmWs, eventsConsumed, focusEvents, ruleRuns, subs_on_conn>>

\* lines 101-102 with the command connection replaced as well
ReconnectBoth ==
    /\ pc = "reconn"
    /\ \E ok \in BOOLEAN :
         IF ok THEN /\ event_conn' = "open" /\ subs_on_conn' = 0 /\ cmd_conn' = "open"
                    /\ pc' = "resub" /\ UNCHANGED lastLog
         ELSE /\ pc' = failed_attempt /\ lastLog' = "retry"
              /\ UNCHANGED <<event_conn, subs_on_conn, cmd_conn>>
    /\ UNCHANGED <<args, events, tree, ws_name, new_layout, cmd,
                   outcome, lastCmd, item, wmTree, wmWs, eventsConsumed,
                   focusEvents, ruleRuns, cmdsSent, wmApplied>>

\* lines 101-102 and, if the connection fails, 109
Reconnect ==
    /\ pc = "reconn"
    /\ \E ok \in BOOLEAN :
         IF ok THEN /\ event_conn' = "open" /\ subs_on_conn' = 0
                    /\ pc' = "resub" /\ UNCHANGED lastLog
         ELSE /\ pc' = failed_attempt /\ lastLog' = "retry"
              /\ UNCHANGED <<event_conn, subs_on_conn>>
    /\ UNCHANGED <<args, cmd_conn, events, tree, ws_name, new_layout, cmd,
                   outcome, lastCmd, item, wmTree, wmWs, eventsConsumed,
                   focusEvents, ruleRuns, cmdsSent, wmApplied>>

\* lines 103-107 and, if the subscription fails, 109
Resubscribe ==
    /\ pc = "resub"
    /\ \E o \in IpcOutcomes(event_conn) :
         /\ event_conn' = o.conn
         /\ IF o.ok THEN events' = "live" /\ lastLog' = "reconnected" /\ pc' = "next"
            ELSE pc' = failed_attempt /\ lastLog' = "retry" /\ UNCHANGED events
    /\ subs_on_conn' = subs_on_conn + 1
    /\ UNCHANGED <<args, cmd_conn, tree, ws_name, new_layout, cmd, outcome,
                   lastCmd, item, wmTree, wmWs, eventsConsumed, focusEvents,
                   ruleRuns, cmdsSent, wmApplied>>

\* line 110 followed by a return instead of the next attempt
SleepThenGiveUp ==
    /\ pc = "sleep"
    /\ pc' = "exit_err"
    /\ UNCHANGED <<args, cmd_conn, event_conn, events, tree, ws_name, new_layout,
                   cmd, outcome, lastCmd, lastLog, item, wmTree, wmWs,
                   eventsConsumed, focusEvents, ruleRuns, cmdsSent, wmApplied,
                   subs_on_conn>>

\* line 110, then back to line 100
Sleep ==
    /\ pc = "sleep"
    /\ pc' = "reconn"
    /\ UNCHANGED <<args, cmd_conn, event_conn, events, tree, ws_name, new_layout,
                   cmd, outcome, lastCmd, lastLog, item, wmTree, wmWs,
                   eventsConsumed, focusEvents, ruleRuns, cmdsSent, wmApplied,
                   subs_on_conn>>

\* the window manager: the user moves focus, resizes, changes a layout or
\* switches workspace while the daemon is between two awaits
WMChange ==
    /\ pc \notin {"start", "exit_ok", "exit_err"}
    /\ \/ wmTree' \in WMTrees \ {wmTree} /\ UNCHANGED wmWs
       \/ wmWs' \in (WsNames \cup {NoWorkspace}) \ {wmWs} /\ UNCHANGED wmTree
    /\ UNCHANGED <<args, pc, cmd_conn, event_conn, events, tree, ws_name,
                   new_layout, cmd, outcome, lastCmd, lastLog, item,
                   eventsConsumed, focusEvents, ruleRuns, cmdsSent, wmApplied,
                   subs_on_conn>>

\* the daemon's steps
Daemon ==
    \/ Start
    \/ OpenEventConn
    \/ Subscribe
    \/ NextEvent
    \/ GetTree
    \/ GetWorkspaces
    \/ RunCommand
    \/ Reconnect
    \/ Resubscribe
    \/ Sleep

Next == Daemon \/ WMChange

Spec == Init /\ [][Next]_vars

\* the runtime polls the daemon's task whenever it can proceed, and the
\* sleep of line 110 ends
SpecLive == Spec /\ WF_vars(Daemon)

\* the decision rule on every tree, against a window manager at rest
InitRule == InitWith(Trees, Ratios)

SpecRule == InitRule /\ [][Daemon]_vars

---------------------------------------------------------------------------
(* Properties *)

\* the snapshot of the current run, its focused node and that node's parent
Snap == tree[1]
SnapParent == find_focused_as_ref(Snap, 1)
SnapFocused == FindFocusedChild(Snap, SnapParent)
HasPair == tree # None /\ SnapParent # 0 /\ SnapFocused # 0

\* no command has been chosen, is about to be sent or was delivered in this run
NoCommand == cmd = "none" /\ lastCmd = "none" /\ pc # "rule_cmd"

\* this run got as far as choosing a layout
Decided == pc = "rule_cmd" \/ outcome \in {"same_layout", "sent", "err_cmd"}

\* C1: for a focused node that passes the skip checks and a positive ratio,
\* the layout chosen is vertical exactly when height > width / ratio, that
\* is height * num > width * den for ratio = num / den, and horizontal
\* otherwise; 100 x 200 at ratio 1.0 is vertical, a square at 1.0 horizontal.
C1_SplitRule ==
    /\ Decided => HasPair /\ new_layout \in {"SplitV", "SplitH"}
    /\ (new_layout # "none" /\ args.ratio[1] > 0) =>
          LET n == Snap[SnapFocused]
          IN  /\ (new_layout = "SplitV") <=>
                    (n.height * args.ratio[1] > n.width * args.ratio[2])
              /\ (args.ratio = <<1, 1>> /\ n.width = 100 /\ n.height = 200)
                    => new_layout = "SplitV"
              /\ (args.ratio = <<1, 1>> /\ n.width = n.height)
                    => new_layout = "SplitH"

\* C1 witness: a square window at ratio 1.0 made the daemon send splith
C1_Witness ==
    /\ outcome = "sent" /\ lastCmd = "splith" /\ args.ratio = <<1, 1>>
    /\ HasPair /\ Snap[SnapFocused].width = Snap[SnapFocused].height

\* C2: when the parent of the focused node is tabbed or stacked, no command
\* is chosen or sent, whatever the focused node's own layout and rectangle.
C2_ParentTabbedNoCommand ==
    (HasPair /\ Snap[SnapParent].layout \in {"Tabbed", "Stacked"}) => NoCommand

\* C3: a focused node that is floating, or whose percent is present and
\* above 1.0, never gets a command; once the skip check is reached the run
\* returns success at once (the only other ends are those of the workspace
\* query that precedes the check).
C3_FloatingFullscreenSkipped ==
    (HasPair /\ LET n == Snap[SnapFocused]
                IN  \/ n.node_type = "FloatingCon"
                    \/ (n.percent # None /\ n.percent[1] > PercentOne))
    => /\ NoCommand
       /\ new_layout = "none"
       /\ outcome \in {"none", "skip_node", "skip_ws", "err_ws"}
       /\ outcome = "none" => pc = "rule_ws"

\* C3 witness: a floating window that would otherwise have got splitv
C3_Witness ==
    /\ outcome = "skip_node" /\ HasPair
    /\ Snap[SnapFocused].node_type = "FloatingCon"
    /\ Snap[SnapFocused].percent = None
    /\ Snap[SnapFocused].layout = "None"
    /\ Snap[SnapFocused].height > Snap[SnapFocused].width
    /\ Snap[SnapParent].layout = "SplitH"
    /\ args.ratio = <<1, 1>>

\* C4: when the layout chosen equals the parent's current layout no command
\* is sent, and repeating the focus event against that tree sends none
\* either, however often.
C4_SameLayoutNoCommand ==
    /\ (HasPair /\ new_layout # "none" /\ new_layout = Snap[SnapParent].layout)
          => NoCommand /\ outcome = "same_layout"
    /\ (outcome = "same_layout" /\ Snap = wmTree) => cmdsSent = 0

\* C4 witness: the second focus event against the same tree, again silent
C4_Witness ==
    /\ outcome = "same_layout" /\ ruleRuns >= 2 /\ focusEvents >= 2
    /\ cmdsSent = 0 /\ new_layout = "SplitV"

\* C5: with a non-empty allow-list, a run whose workspace query reports a
\* workspace outside the list, or none, ends without a command, and a command
\* is only ever sent after the query reported a listed workspace; with an
\* empty allow-list the workspace query is never made and no run is filtered.
C5_WorkspaceFilter ==
    /\ (args.workspace # {} /\ ws_name # Unqueried /\ ws_name \notin args.workspace)
          => NoCommand /\ outcome = "skip_ws"
    /\ (args.workspace # {} /\ ~NoCommand) => ws_name \in args.workspace
    /\ args.workspace = {} =>
          ws_name = Unqueried /\ pc # "rule_ws" /\ outcome \notin {"skip_ws", "err_ws"}

\* C5 witness: workspace "2" is focused, only "1" is allowed, and the tree
\* alone would have led to a command
C5_Witness ==
    /\ args.workspace = {"1"} /\ ws_name = "2" /\ outcome = "skip_ws"
    /\ tree # None /\ Decide(Snap, args.ratio).outcome = "send"

RulePcs == {"rule_tree", "rule_ws", "rule_cmd"}
ReconnPcs == {"reconn", "resub", "sleep"}
ExitPcs == {"exit_ok", "exit_err"}

\* a step delivers at most one command, and only as the last step of a run
CommandEndsRun ==
    /\ cmdsSent' <= cmdsSent + 1
    /\ cmdsSent' # cmdsSent => (pc = "rule_cmd" /\ pc' \notin RulePcs)

\* C6: a run of run_autotile delivers at most one command, in the step that
\* ends the run, and in continuous mode the commands delivered never
\* outnumber the focus events taken from the stream.
C6_AtMostOneCommandPerEvent ==
    /\ [](~args.once => cmdsSent <= focusEvents /\ ruleRuns = focusEvents)
    /\ [](pc \in RulePcs => lastCmd = "none" /\ (~args.once => cmdsSent < focusEvents))
    /\ [][CommandEndsRun]_vars

\* C6 witness: two focus events, two commands
C6_Witness ==
    ~args.once /\ focusEvents = 2 /\ cmdsSent = 2 /\ eventsConsumed = 2 /\ pc = "next"

\* a failed run in continuous mode is logged and main awaits the next event
FailedRunGoesOn ==
    (~args.once /\ pc \in RulePcs /\ outcome' \in RuleErrors)
        => (pc' = "next" /\ lastLog' = "rule_error")

\* C7: in continuous mode, once the subscription is made the process never
\* exits with an error; a run of run_autotile that fails is logged and main
\* is back at events.next().
C7_RuleErrorsAreLogged ==
    /\ []((~args.once /\ events # "none") => pc # "exit_err")
    /\ [][FailedRunGoesOn]_vars

\* C7 witness: after a failed run the next focus event has started another
C7_Witness ==
    /\ ~args.once /\ pc = "rule_tree" /\ ruleRuns = 2 /\ lastLog = "rule_error"
    /\ cmd_conn = "open"

\* the attempts of the reconnect loop that succeed
ReconnectOk == Reconnect /\ pc' = "resub"
ResubscribeOk == Resubscribe /\ pc' = "next"

\* a stream error taken from the stream leads into the reconnect loop
StreamErrorEntersLoop ==
    (pc = "next" /\ item' = "stream_error" /\ eventsConsumed' # eventsConsumed)
        => pc' = "reconn"

\* the reconnect loop is left only through a successful resubscription
LoopLeftByResubscription ==
    pc \in ReconnPcs =>
        /\ pc' \in ReconnPcs \cup {"next"}
        /\ pc' = "next" => (pc = "resub" /\ events' = "live" /\ event_conn' = "open")

\* C8: a stream error puts main in the reconnect loop; the loop is left only
\* by a successful resubscription on a fresh connection, never by an exit;
\* and if connecting and resubscribing do not fail forever, main leaves the
\* loop and is back at events.next() on the new subscription.
C8_ReconnectLoop ==
    /\ [][StreamErrorEntersLoop]_vars
    /\ [][LoopLeftByResubscription]_vars
    /\ (SF_vars(ReconnectOk) /\ SF_vars(ResubscribeOk))
          => ((pc \in ReconnPcs) ~> (pc = "next" /\ events = "live"))

\* C8 witness: back at events.next() after at least one failed attempt
C8_Witness ==
    pc = "next" /\ item = "stream_error" /\ lastLog = "reconnected" /\ event_conn = "open"

C10_OneShot ==
    args.once =>
        /\ event_conn = "none" /\ events = "none" /\ eventsConsumed = 0
        /\ pc \in {"start"} \cup RulePcs \cup ExitPcs
        /\ ruleRuns = (IF pc = "start" \/ cmd_conn = "none" THEN 0 ELSE 1)
        /\ (pc \in ExitPcs /\ cmd_conn # "none") =>
              /\ outcome # "none"
              /\ pc = "exit_ok" <=> outcome \notin RuleErrors
              /\ pc = "exit_err" <=> outcome \in RuleErrors
        /\ pc = "exit_ok" => cmd_conn # "none"

\* C10 witness: a one-shot run that had nothing to change and exited with success
C10_Witness ==
    args.once /\ pc = "exit_ok" /\ outcome = "same_layout" /\ ruleRuns = 1 /\ cmdsSent = 0

StartupPcs == {"start", "evconn", "subscribe"}

\* a startup call that fails ends the process with the error
StartupFailureExits ==
    /\ (pc = "start" /\ pc' # pc /\ cmd_conn' # "open") => pc' = "exit_err"
    /\ (pc = "evconn" /\ pc' # pc /\ event_conn' # "open") => pc' = "exit_err"
    /\ (pc = "subscribe" /\ pc' # pc /\ events' # "live") => pc' = "exit_err"
    /\ (pc \in StartupPcs /\ pc' = "exit_err") =>
          UNCHANGED <<eventsConsumed, cmdsSent, ruleRuns, tree, lastLog, item>>

\* C11: a failure of Connection::new for the command connection, of
\* Connection::new for the event connection or of the first subscribe ends
\* the process with an error, and the process has then consumed no event,
\* never been in the reconnect loop and sent no command.
C11_StartupFailureFatal ==
    /\ [][StartupFailureExits]_vars
    /\ []((pc = "exit_err" /\ (~args.once \/ cmd_conn = "none")) =>
             /\ events = "none" /\ eventsConsumed = 0 /\ item = "none"
             /\ cmdsSent = 0 /\ ruleRuns = 0 /\ tree = None
             /\ lastLog \in {"none", "started"})

\* C11 witness: the first subscribe failed on an opened event connection
C11_Witness ==
    /\ ~args.once /\ pc = "exit_err" /\ cmd_conn = "open" /\ event_conn # "none"
    /\ subs_on_conn = 1 /\ events = "none"

\* an item that is not a window focus event changes nothing but the stream
OtherItemsChangeNothing ==
    (pc = "next" /\ eventsConsumed' # eventsConsumed
        /\ item' \in {"window_other", "other_event"})
    => /\ pc' = "next"
       /\ UNCHANGED <<tree, ws_name, new_layout, cmd, outcome, lastCmd, cmdsSent,
                      ruleRuns, cmd_conn, event_conn, events, wmApplied, lastLog>>

\* C12: in continuous mode run_autotile is called for window focus events
\* only: an item that is another window change or another event leaves main
\* at events.next() with no tree query, no workspace query, no command and
\* both connections as they were.
C12_OnlyFocusEventsRunRule ==
    /\ [][OtherItemsChangeNothing]_vars
    /\ [](~args.once => ruleRuns = focusEvents)
    /\ []((pc \in RulePcs /\ ~args.once) => item = "focus")

\* C12 witness: two items that are no focus events were consumed, no run
C12_Witness ==
    /\ item = "other_event" /\ pc = "next" /\ eventsConsumed = 2
    /\ ruleRuns = 0 /\ tree = None /\ cmd_conn = "open" /\ event_conn = "open"

\* the layout lines 148-152 choose for node n, without the f64 division
\* (ratio 0.0 divides to an infinity: never exceeded)
Chosen(n) ==
    IF args.ratio[1] > 0 /\ n.height * args.ratio[1] > n.width * args.ratio[2]
    THEN "SplitV" ELSE "SplitH"

\* C13: a run in which no IPC call failed, the workspace filter passed, the
\* focused node was not skipped and the chosen layout differs from the
\* parent's ends having sent exactly one command: splitv for vertical,
\* splith for horizontal.
C13_CommandMatchesLayout ==
    /\ (/\ outcome \notin {"none"} \cup RuleErrors
        /\ HasPair
        /\ args.workspace = {} \/ ws_name \in args.workspace
        /\ LET n == Snap[SnapFocused]
           IN  /\ n.layout \notin {"Tabbed", "Stacked"}
               /\ n.node_type # "FloatingCon"
               /\ n.percent = None \/ n.percent[1] <= PercentOne
               /\ Chosen(n) # Snap[SnapParent].layout)
       => /\ outcome = "sent"
          /\ new_layout = Chosen(Snap[SnapFocused])
          /\ lastCmd = (IF Chosen(Snap[SnapFocused]) = "SplitV" THEN "splitv" ELSE "splith")
          /\ wmApplied # None
    /\ outcome = "sent" =>
          /\ (new_layout = "SplitV" /\ lastCmd = "splitv")
                \/ (new_layout = "SplitH" /\ lastCmd = "splith")
          /\ new_layout # Snap[SnapParent].layout
          /\ cmdsSent >= 1
          /\ args.once => cmdsSent = 1

\* C13 witness: a tall window on an allowed workspace in a splith container
C13_Witness ==
    /\ outcome = "sent" /\ lastCmd = "splitv" /\ new_layout = "SplitV"
    /\ Snap[SnapParent].layout = "SplitH"
    /\ args.workspace = {"1"} /\ ws_name = "1" /\ args.ratio = <<1618, 1000>>

\* no node of tree t has a focused node among its direct children
NoFocusedChildAnywhere(t) ==
    \A id \in NodeIds : \A i \in 1..Len(t[id].nodes) : ~t[t[id].nodes[i]].focused

\* C14: when no node of the tree has a focused direct child, the run sends
\* no command and returns success from the tree (the only other ends are
\* those of the workspace query that precedes the search).
C14_NoPairNoCommand ==
    (tree # None /\ NoFocusedChildAnywhere(Snap)) =>
        /\ NoCommand
        /\ new_layout = "none"
        /\ outcome \in {"none", "no_pair", "skip_ws", "err_ws"}
        /\ outcome = "none" => pc = "rule_ws"

\* C14 witness: the focused window is a floating window of the workspace
C14_Witness ==
    /\ outcome = "no_pair" /\ tree # None /\ Snap[6].focused
    /\ args.ratio = <<1618, 1000>>

\* C15 as stated: with a non-empty allow-list, a run whose workspace is
\* absent or not listed has made no tree query and chosen no command
C15_FilteredBeforeTreeQuery ==
    (args.workspace # {} /\ ws_name # Unqueried /\ ws_name \notin args.workspace)
        => (tree = None /\ NoCommand)

\* C15 amended: with a non-empty allow-list the workspace name is fetched
\* after the tree query and before anything is decided from the tree; when
\* the workspace is absent or not listed the run ends there, the tree
\* unused and no command issued.
C15_FilteredBeforeDecision ==
    args.workspace # {} =>
        /\ ws_name # Unqueried => tree # None
        /\ pc = "rule_ws" => (tree # None /\ ws_name = Unqueried /\ new_layout = "none"
                                /\ cmd = "none")
        /\ (new_layout # "none" \/ ~NoCommand \/ outcome \in {"no_pair", "skip_node"})
              => ws_name \in args.workspace
        /\ (ws_name # Unqueried /\ ws_name \notin args.workspace)
              => (outcome = "skip_ws" /\ NoCommand /\ new_layout = "none")

\* C15 witness: no workspace reports focused; the tree was fetched and dropped
C15_Witness ==
    /\ args.workspace = {"1"} /\ ws_name = NoWorkspace /\ outcome = "skip_ws"
    /\ tree # None /\ HasPair

\* C16: the window manager executes a command on the node the decision was
\* computed from, on a workspace that passes the allow-list.
C16_CommandHitsDecidedWindow ==
    wmApplied # None =>
        /\ wmApplied[1].win = SnapFocused
        /\ args.workspace = {} \/ wmApplied[1].ws \in args.workspace

\* steps that keep the command connection, and what a broken one allows
CmdConnFrame ==
    /\ pc \in ReconnPcs => cmd_conn' = cmd_conn
    /\ cmd_conn' # cmd_conn =>
          \/ pc = "start" /\ cmd_conn = "none" /\ cmd_conn' = "open"
          \/ pc \in RulePcs /\ cmd_conn = "open" /\ cmd_conn' = "broken"
    /\ cmd_conn = "broken" =>
          /\ cmdsSent' = cmdsSent
          /\ wmApplied' \in {wmApplied, None}
          /\ (pc \in RulePcs /\ pc' \notin RulePcs) =>
                /\ outcome' = "err_tree"
                /\ ~args.once => (pc' = "next" /\ lastLog' = "rule_error")

\* C17: the command connection is opened once, at startup; the reconnect
\* loop never touches it; once it is broken it stays broken, every later run
\* of run_autotile fails at its first call and is logged, and no command is
\* sent again.
C17_CommandConnectionKept ==
    /\ [][CmdConnFrame]_vars
    /\ [](cmd_conn = "broken" => pc \notin {"rule_ws", "rule_cmd"})

\* C17 witness: the event stream was re-established while the command
\* connection stayed broken
C17_Witness ==
    /\ cmd_conn = "broken" /\ event_conn = "open" /\ events = "live"
    /\ lastLog = "reconnected" /\ pc = "next" /\ outcome \in RuleErrors

\* the steps of the reconnect loop
ReconnectLoopSteps ==
    /\ (pc = "reconn" /\ pc' # pc) =>
          \/ pc' = "resub" /\ event_conn' = "open" /\ subs_on_conn' = 0
          \/ pc' = "sleep" /\ lastLog' = "retry" /\ UNCHANGED <<event_conn, events>>
    /\ (pc = "resub" /\ pc' # pc) =>
          \/ pc' = "next" /\ events' = "live" /\ subs_on_conn' = 1
          \/ pc' = "sleep" /\ lastLog' = "retry" /\ UNCHANGED events
    /\ (pc = "sleep" /\ pc' # pc) => pc' = "reconn"
    /\ (pc' = "sleep" /\ pc # pc') => pc \in {"reconn", "resub"}
    /\ (pc' = "reconn" /\ pc # pc') => pc \in {"next", "sleep"}
    /\ pc \in ReconnPcs =>
          UNCHANGED <<tree, ws_name, ruleRuns, cmdsSent, cmd_conn, wmApplied, outcome>>

\* C18: in the reconnect loop a failed attempt (connection or subscription)
\* goes to the sleep and the sleep to the next attempt; each attempt
\* subscribes on a connection opened in that attempt; a successful attempt
\* goes straight back to events.next(); nothing of run_autotile happens in
\* the loop.
C18_ReconnectAttempts ==
    /\ [][ReconnectLoopSteps]_vars
    /\ [](pc = "resub" => (subs_on_conn = 0 /\ event_conn = "open"))
    /\ [](subs_on_conn <= 1)
    /\ [](pc \in ReconnPcs => events = "failed")

\* C18 witness: after a failed attempt and its sleep, a second attempt has
\* opened its own connection
C18_Witness ==
    /\ pc = "resub" /\ lastLog = "retry" /\ subs_on_conn = 0 /\ event_conn = "open"

====
